---- MODULE Spec2Model ----
(***************************************************************************)
(* A model of scrap1.py: StreamlitWebScraper.scrape_page and the Streamlit *)
(* script main().  One step of the model is one run of the script, started  *)
(* by one widget event (a text typed, the checkbox toggled, a button       *)
(* clicked) or by st.rerun().                                              *)
(*                                                                         *)
(* Python str values that the code inspects (URLs, CSS selectors, element  *)
(* texts) are sequences of one-character strings; dictionary keys and      *)
(* selector names, which the code only compares and tests for emptiness,   *)
(* are TLA+ strings.  A Python dict is the sequence of its <<key, value>>  *)
(* pairs in insertion order.  Python values stored in the result dict are  *)
(* tagged records [kind, v].                                               *)
(***************************************************************************)
EXTENDS Integers, Sequences, FiniteSets, TLC

(* ---------------------------------------------------------------------- *)
(* Bounds                                                                  *)
(* ---------------------------------------------------------------------- *)

\* The largest number of entries the session's selector dict may hold (the
\* code sets no limit).
MaxSelectors == 2

(* ---------------------------------------------------------------------- *)
(* Python str operations                                                   *)
(* ---------------------------------------------------------------------- *)

Whitespace == {" "}

RECURSIVE lstrip(_)
lstrip(s) == IF s # <<>> /\ Head(s) \in Whitespace THEN lstrip(Tail(s)) ELSE s

RECURSIVE rstrip(_)
rstrip(s) ==
    IF s # <<>> /\ s[Len(s)] \in Whitespace
    THEN rstrip(SubSeq(s, 1, Len(s) - 1))
    ELSE s

\* str.strip()
strip(s) == rstrip(lstrip(s))

\* str.startswith(p)
startswith(s, p) == Len(s) >= Len(p) /\ SubSeq(s, 1, Len(p)) = p

\* s[i:] for a 1-based position i
From(s, i) == SubSeq(s, i, Len(s))

\* s[:i-1] for a 1-based position i
Before(s, i) == SubSeq(s, 1, i - 1)

\* The first position of a character of cs in s, or Len(s) + 1.
RECURSIVE FindAny(_, _, _)
FindAny(s, cs, i) ==
    IF i > Len(s) THEN Len(s) + 1
    ELSE IF s[i] \in cs THEN i
    ELSE FindAny(s, cs, i + 1)

\* str.split(c)
RECURSIVE split(_, _)
split(s, c) ==
    LET i == FindAny(s, {c}, 1)
    IN  IF i > Len(s) THEN <<s>>
        ELSE <<Before(s, i)>> \o split(From(s, i + 1), c)

\* c.join(parts)
RECURSIVE join(_, _)
join(parts, c) ==
    IF parts = <<>> THEN <<>>
    ELSE IF Len(parts) = 1 THEN parts[1]
    ELSE parts[1] \o <<c>> \o join(Tail(parts), c)

\* The concatenation of a sequence of strings.
RECURSIVE Concat(_)
Concat(parts) == IF parts = <<>> THEN <<>> ELSE Head(parts) \o Concat(Tail(parts))

(* ---------------------------------------------------------------------- *)
(* Python values and dicts                                                 *)
(* ---------------------------------------------------------------------- *)

PyNone == [kind |-> "none", v |-> <<>>]
PyStr(s) == [kind |-> "str", v |-> s]
PyInt(n) == [kind |-> "int", v |-> n]
PyList(l) == [kind |-> "list", v |-> l]

DictKeys(d) == {d[i][1] : i \in 1..Len(d)}

DictHas(d, k) == k \in DictKeys(d)

DictGet(d, k) == d[CHOOSE i \in 1..Len(d) : d[i][1] = k][2]

\* DictSet as a list's append: a key already there gets a second entry.
DictSet_append(d, k, v) == d \o <<(<<k, v>>)>>

\* d[k] = v: an existing key keeps its place, a new key goes last.
DictSet(d, k, v) ==
    IF DictHas(d, k)
    THEN [i \in 1..Len(d) |-> IF d[i][1] = k THEN <<k, v>> ELSE d[i]]
    ELSE d \o <<(<<k, v>>)>>

\* del d[k]
DictDel(d, k) == SelectSeq(d, LAMBDA e : e[1] # k)

\* The keys of d in insertion order.
DictKeySeq(d) == [i \in 1..Len(d) |-> d[i][1]]

\* d.update(e)
RECURSIVE DictUpdate(_, _)
DictUpdate(d, e) ==
    IF e = <<>> THEN d
    ELSE DictUpdate(DictSet(d, e[1][1], e[1][2]), Tail(e))

(* ---------------------------------------------------------------------- *)
(* urllib.parse.urljoin, as scrape_page calls it (Python 3 standard        *)
(* library).  Parameters (";") are left out: no input of the model holds   *)
(* a semicolon.                                                            *)
(* ---------------------------------------------------------------------- *)

LowerLetters ==
    {"a", "b", "c", "d", "e", "f", "g", "h", "i", "j", "k", "l", "m",
     "n", "o", "p", "q", "r", "s", "t", "u", "v", "w", "x", "y", "z"}

UpperLetters == {"H", "T", "P", "S"}

Digits == {"0", "1", "2", "3", "4", "5", "6", "7", "8", "9"}

\* urllib.parse.scheme_chars
scheme_chars == LowerLetters \cup UpperLetters \cup Digits \cup {"+", "-", "."}

lowerChar(c) ==
    CASE c = "H" -> "h" [] c = "T" -> "t" [] c = "P" -> "p" [] c = "S" -> "s"
      [] OTHER -> c

\* str.lower()
lower(s) == [i \in 1..Len(s) |-> lowerChar(s[i])]

\* The schemes of urllib.parse.uses_relative and uses_netloc that the model
\* can meet; both lists hold the empty scheme.
uses_relative == {<<>>, <<"h","t","t","p">>, <<"h","t","t","p","s">>, <<"f","t","p">>}

uses_netloc == {<<>>, <<"h","t","t","p">>, <<"h","t","t","p","s">>, <<"f","t","p">>}

\* urllib.parse.urlsplit(url, scheme): [scheme, netloc, path, query, fragment].
\* Each step below takes what the steps before it cut off.
cut_query(scheme, netloc, url, fragment, q) ==
    [scheme |-> scheme, netloc |-> netloc, path |-> Before(url, q),
     query |-> From(url, q + 1), fragment |-> fragment]

\* if '?' in url: url, query = url.split('?', 1)
split_query(scheme, netloc, url, fragment) ==
    cut_query(scheme, netloc, url, fragment, FindAny(url, {"?"}, 1))

\* if '#' in url: url, fragment = url.split('#', 1)
split_fragment(scheme, netloc, url) ==
    split_query(scheme, netloc, Before(url, FindAny(url, {"#"}, 1)),
                From(url, FindAny(url, {"#"}, 1) + 1))

\* if url[:2] == '//': netloc, url = _splitnetloc(url, 2)
split_netloc(scheme, url) ==
    IF startswith(url, <<"/", "/">>)
    THEN split_fragment(scheme,
                        SubSeq(url, 3, FindAny(url, {"/", "?", "#"}, 3) - 1),
                        From(url, FindAny(url, {"/", "?", "#"}, 3)))
    ELSE split_fragment(scheme, <<>>, url)

\* Whether url[:i] is a scheme, i being the position of the first ":".
has_scheme(url, i) ==
    /\ i > 1
    /\ i <= Len(url)
    /\ url[1] \in LowerLetters \cup UpperLetters
    /\ \A k \in 1..(i - 1) : url[k] \in scheme_chars

split_scheme(url, default, i) ==
    IF has_scheme(url, i)
    THEN split_netloc(lower(Before(url, i)), From(url, i + 1))
    ELSE split_netloc(default, url)

urlsplit(url, default) == split_scheme(lstrip(url), default, FindAny(lstrip(url), {":"}, 1))

\* urllib.parse.urlunsplit: "//" and the netloc before the path ...
with_netloc(u) ==
    IF u.netloc # <<>>
       \/ (u.scheme # <<>> /\ u.scheme \in uses_netloc
           /\ ~startswith(u.path, <<"/", "/">>))
    THEN <<"/", "/">> \o u.netloc
         \o (IF u.path # <<>> /\ Head(u.path) # "/" THEN <<"/">> ELSE <<>>)
         \o u.path
    ELSE u.path

\* ... then the scheme, the query and the fragment, each only if not empty.
urlunsplit(u) ==
    (IF u.scheme # <<>> THEN u.scheme \o <<":">> ELSE <<>>)
    \o with_netloc(u)
    \o (IF u.query # <<>> THEN <<"?">> \o u.query ELSE <<>>)
    \o (IF u.fragment # <<>> THEN <<"#">> \o u.fragment ELSE <<>>)

\* The loop of urljoin over the path segments: ".." pops, "." is skipped.
RECURSIVE resolve_segments(_, _)
resolve_segments(segments, resolved) ==
    IF segments = <<>> THEN resolved
    ELSE IF Head(segments) = <<".", ".">>
    THEN resolve_segments(Tail(segments),
                          IF resolved = <<>> THEN <<>>
                          ELSE SubSeq(resolved, 1, Len(resolved) - 1))
    ELSE IF Head(segments) = <<".">>
    THEN resolve_segments(Tail(segments), resolved)
    ELSE resolve_segments(Tail(segments), Append(resolved, Head(segments)))

\* segments[1:-1] = filter(None, segments[1:-1])
filter_middle(segments) ==
    IF Len(segments) <= 2 THEN segments
    ELSE <<segments[1]>>
         \o SelectSeq(SubSeq(segments, 2, Len(segments) - 1), LAMBDA x : x # <<>>)
         \o <<segments[Len(segments)]>>

\* The end of urljoin: the resolved segments joined, "/" when nothing is left.
join_resolved(scheme, netloc, query, fragment, joined) ==
    urlunsplit([scheme |-> scheme, netloc |-> netloc,
                path |-> IF joined = <<>> THEN <<"/">> ELSE joined,
                query |-> query, fragment |-> fragment])

\* if segments[-1] in ('.', '..'): resolved_path.append('')
resolve_path(scheme, netloc, query, fragment, segments) ==
    join_resolved(scheme, netloc, query, fragment,
                  join(IF segments[Len(segments)] \in {<<".">>, <<".", ".">>}
                       THEN Append(resolve_segments(segments, <<>>), <<>>)
                       ELSE resolve_segments(segments, <<>>),
                       "/"))

\* base_parts = bpath.split('/'), without its last part unless that is empty
base_parts_of(bparts) ==
    IF bparts[Len(bparts)] # <<>> THEN SubSeq(bparts, 1, Len(bparts) - 1) ELSE bparts

\* The part of urljoin after both URLs are split: b the base, u the reference.
join_split(url, b, u) ==
    IF u.scheme # b.scheme \/ u.scheme \notin uses_relative THEN url
    ELSE IF u.scheme \in uses_netloc /\ u.netloc # <<>> THEN urlunsplit(u)
    ELSE IF u.path = <<>>
    THEN urlunsplit([scheme |-> u.scheme,
                     netloc |-> IF u.scheme \in uses_netloc THEN b.netloc ELSE u.netloc,
                     path |-> b.path,
                     query |-> IF u.query = <<>> THEN b.query ELSE u.query,
                     fragment |-> u.fragment])
    ELSE resolve_path(u.scheme,
                      IF u.scheme \in uses_netloc THEN b.netloc ELSE u.netloc,
                      u.query, u.fragment,
                      IF Head(u.path) = "/" THEN split(u.path, "/")
                      ELSE filter_middle(base_parts_of(split(b.path, "/"))
                                         \o split(u.path, "/")))

\* The reference split with the base's scheme as its default.
join_base(url, b) == join_split(url, b, urlsplit(url, b.scheme))

\* urllib.parse.urljoin(base, url)
urljoin(base, url) ==
    IF base = <<>> THEN url
    ELSE IF url = <<>> THEN base
    ELSE join_base(url, urlsplit(base, <<>>))

(* ---------------------------------------------------------------------- *)
(* The parsed page (BeautifulSoup).  A document is [title, body]: title is *)
(* <<>> when the document has no title element and <<contents>> otherwise, *)
(* contents being the title element's child nodes, each a text node        *)
(* [kind |-> "text", v |-> s] or an element [kind |-> "tag", v |-> nodes]. *)
(* body is the sequence of the other elements in document order, each      *)
(* [name, id, attrs, strings]: attrs the dict of its attributes, strings   *)
(* the text nodes below it in document order.                              *)
(* ---------------------------------------------------------------------- *)

\* Python truthiness of a tagged value.
truthy(x) ==
    CASE x.kind = "none" -> FALSE
      [] x.kind = "int" -> x.v # 0
      [] OTHER -> x.v # <<>>

\* bs4 Tag.string of an element with these child nodes: the only child's
\* string, None when there is not exactly one child.
RECURSIVE tag_string(_)
tag_string(contents) ==
    IF Len(contents) # 1 THEN PyNone
    ELSE IF contents[1].kind = "text" THEN PyStr(contents[1].v)
    ELSE tag_string(contents[1].v)

\* elem.get_text(strip=True): every text node stripped, the empty ones
\* dropped, the rest concatenated.
get_text(elem) ==
    Concat(SelectSeq([i \in 1..Len(elem.strings) |-> strip(elem.strings[i])],
                     LAMBDA t : t # <<>>))

\* [e.get_text(strip=True) for e in elements]
texts_of(elements) == [i \in 1..Len(elements) |-> get_text(elements[i])]

\* soup.find_all(names): the elements with one of these tag names.
find_all(soup, names) == SelectSeq(soup.body, LAMBDA e : e.name \in names)

\* soup.find_all(name, attr=True): those that carry the attribute.
find_all_with(soup, name, attr) ==
    SelectSeq(soup.body, LAMBDA e : e.name = name /\ DictHas(e.attrs, attr))

\* elem.get(attr, '')
attr_get(elem, attr) ==
    IF DictHas(elem.attrs, attr) THEN DictGet(elem.attrs, attr) ELSE <<>>

\* A CSS identifier (of letters and digits, not starting with a digit).
is_ident(s) ==
    /\ s # <<>>
    /\ s[1] \in LowerLetters
    /\ \A i \in 1..Len(s) : s[i] \in LowerLetters \cup Digits

\* Whether soup.select(css) raises SelectorSyntaxError.  The model's
\* selectors are type selectors ("h1"), id selectors ("#nope") and strings
\* that are neither, which the selector parser rejects.
select_raises(css) ==
    ~(is_ident(css) \/ (css # <<>> /\ Head(css) = "#" /\ is_ident(Tail(css))))

\* soup.select(css) for a well-formed css: the matches in document order.
select(soup, css) ==
    IF Head(css) = "#"
    THEN SelectSeq(soup.body, LAMBDA e : e.id = Tail(css))
    ELSE SelectSeq(soup.body, LAMBDA e : e.name = css)

(* ---------------------------------------------------------------------- *)
(* StreamlitWebScraper.scrape_page                                         *)
(* ---------------------------------------------------------------------- *)

\* What session.get(url, timeout=10) does: it raises a RequestException
\* [kind |-> "exception"] or returns a response [kind |-> "response"].
NoResponse == [kind |-> "none", exc |-> "", status_code |-> 0,
               doc |-> [title |-> <<>>, body |-> <<>>]]

RaisedResponse(exc) == [NoResponse EXCEPT !.kind = "exception", !.exc = exc]

HttpResponse(status, doc) ==
    [kind |-> "response", exc |-> "", status_code |-> status, doc |-> doc]

\* raise_for_status raising for server errors only.
raise_for_status_5xx(response) ==
    response.status_code >= 500 /\ response.status_code < 600

\* response.raise_for_status() raises HTTPError for a 4xx or 5xx status.
raise_for_status_raises(response) ==
    response.status_code >= 400 /\ response.status_code < 600

\* The two except clauses: (None, f"Request error: ...") and
\* (None, f"Unexpected error: ...").
request_error(exc) ==
    [data |-> PyNone, error |-> PyStr(<<"Request error: ", exc>>)]

unexpected_error(exc) ==
    [data |-> PyNone, error |-> PyStr(<<"Unexpected error: ", exc>>)]

\* selector_value without the single-match case: every match list is a list.
selector_value_list(elements) ==
    IF elements # <<>>
    THEN PyList([i \in 1..Len(elements) |-> get_text(elements[i])])
    ELSE PyNone

\* The value data[key] gets from the elements a selector matched.
selector_value(elements) ==
    IF elements # <<>>
    THEN IF Len(elements) = 1
         THEN PyStr(get_text(elements[1]))
         ELSE PyList(texts_of(elements))
    ELSE PyNone

\* selector_loop with each selector's failure kept to itself: a malformed
\* selector records None and the loop goes on.
RECURSIVE selector_loop_isolating(_, _, _)
selector_loop_isolating(soup, items, data) ==
    IF items = <<>> THEN [raised |-> FALSE, data |-> data]
    ELSE selector_loop_isolating(soup, Tail(items),
             DictSet(data, items[1][1],
                     IF select_raises(items[1][2]) THEN PyNone
                     ELSE selector_value(select(soup, items[1][2]))))

\* for key, selector in custom_selectors.items(): ... over the items left;
\* raised is TRUE when soup.select raised, and the loop stopped there.
RECURSIVE selector_loop(_, _, _)
selector_loop(soup, items, data) ==
    IF items = <<>> THEN [raised |-> FALSE, data |-> data]
    ELSE IF select_raises(items[1][2]) THEN [raised |-> TRUE, data |-> data]
    ELSE selector_loop(soup, Tail(items),
                       DictSet(data, items[1][1],
                               selector_value(select(soup, items[1][2]))))

\* [{'text': a.get_text(strip=True), 'href': urljoin(url, a.get('href', ''))} for a in anchors]
links_of(anchors, url) ==
    [i \in 1..Len(anchors) |->
        [text |-> get_text(anchors[i]),
         href |-> urljoin(url, attr_get(anchors[i], "href"))]]

\* [{'alt': img.get('alt', ''), 'src': urljoin(url, img.get('src', ''))} for img in images]
images_of(images, url) ==
    [i \in 1..Len(images) |->
        [alt |-> attr_get(images[i], "alt"),
         src |-> urljoin(url, attr_get(images[i], "src"))]]

\* The dict of the default extraction.
default_extraction(soup, url) ==
    << <<"headings",
         PyList(texts_of(find_all(soup, {<<"h","1">>, <<"h","2">>, <<"h","3">>})))>>,
       <<"paragraphs", PyList(texts_of(find_all(soup, {<<"p">>})))>>,
       <<"links", PyList(links_of(find_all_with(soup, <<"a">>, "href"), url))>>,
       <<"images", PyList(images_of(find_all_with(soup, <<"i","m","g">>, "src"), url))>> >>

\* soup.title.string.strip() if soup.title else 'No title'; the expression
\* raises AttributeError when soup.title.string is None.
title_raises(soup) == soup.title # <<>> /\ tag_string(soup.title[1]).kind = "none"

title_of(soup) ==
    IF soup.title # <<>>
    THEN strip(tag_string(soup.title[1]).v)
    ELSE <<"N","o"," ","t","i","t","l","e">>

\* extract with the default extraction outside the else: it runs after the
\* selectors too.
extract_both(soup, url, custom_selectors, data) ==
    IF truthy(custom_selectors)
    THEN [raised |-> selector_loop(soup, custom_selectors.v, data).raised,
          data |-> DictUpdate(selector_loop(soup, custom_selectors.v, data).data,
                              default_extraction(soup, url))]
    ELSE [raised |-> FALSE, data |-> DictUpdate(data, default_extraction(soup, url))]

\* The branch "if custom_selectors: ... else: ..." on the dict data built so
\* far: the selectors' values, or the default extraction.
extract(soup, url, custom_selectors, data) ==
    IF truthy(custom_selectors)
    THEN selector_loop(soup, custom_selectors.v, data)
    ELSE [raised |-> FALSE, data |-> DictUpdate(data, default_extraction(soup, url))]

\* return data, None -- unless soup.select raised, which the second except
\* clause turns into (None, "Unexpected error: ...").
returned(r) ==
    IF r.raised THEN unexpected_error("SelectorSyntaxError")
    ELSE [data |-> [kind |-> "dict", v |-> r.data], error |-> PyNone]

\* scrape_page(url, custom_selectors) when session.get behaves as response:
\* the pair (data, error) it returns.
scrape_page(url, custom_selectors, response) ==
    IF response.kind = "exception" THEN request_error(response.exc)
    ELSE IF raise_for_status_raises(response) THEN request_error("HTTPError")
    ELSE IF title_raises(response.doc) THEN unexpected_error("AttributeError")
    ELSE returned(extract(response.doc, url, custom_selectors,
                          << <<"url", PyStr(url)>>,
                             <<"title", PyStr(title_of(response.doc))>>,
                             <<"status_code", PyInt(response.status_code)>> >>))

(* ---------------------------------------------------------------------- *)
(* The exports of main()                                                   *)
(* ---------------------------------------------------------------------- *)

DigitChar == <<"0", "1", "2", "3", "4", "5", "6", "7", "8", "9">>

\* str(n) for n >= 0
RECURSIVE int_str(_)
int_str(n) ==
    IF n < 10 THEN <<DigitChar[n + 1]>>
    ELSE int_str(n \div 10) \o <<DigitChar[(n % 10) + 1]>>

\* sep.join(parts) for a separator of any length
RECURSIVE join_str(_, _)
join_str(parts, sep) ==
    IF parts = <<>> THEN <<>>
    ELSE IF Len(parts) = 1 THEN parts[1]
    ELSE parts[1] \o sep \o join_str(Tail(parts), sep)

\* str(l) of a list of str: "['A', 'B']"
list_str(l) ==
    <<"[">> \o join_str([i \in 1..Len(l) |-> <<"'">> \o l[i] \o <<"'">>], <<",", " ">>)
    \o <<"]">>

\* The text to_csv writes in one cell: None is the empty cell, a list its str().
csv_cell(value) ==
    CASE value.kind = "none" -> <<>>
      [] value.kind = "int" -> int_str(value.v)
      [] value.kind = "list" -> list_str(value.v)
      [] OTHER -> value.v

NoCsv == [kind |-> "none", header |-> <<>>, rows |-> <<>>]

\* to_csv with a list cell exploded: one row per item of the longest list.
to_csv_exploded(d) ==
    [kind |-> "csv", header |-> DictKeySeq(d),
     rows |-> [r \in 1..(IF \E i \in 1..Len(d) : d[i][2].kind = "list" THEN 2 ELSE 1) |->
                  [i \in 1..Len(d) |-> csv_cell(d[i][2])]]]

\* pd.DataFrame([d]).to_csv(index=False): the header line and one line per row.
to_csv(d) ==
    [kind |-> "csv", header |-> DictKeySeq(d),
     rows |-> << [i \in 1..Len(d) |-> csv_cell(d[i][2])] >>]

\* len(data.get(key, []))
count_of(data, key) == IF DictHas(data, key) THEN Len(DictGet(data, key).v) ELSE 0

\* flat_data of the default extraction
flat_data(data) ==
    << <<"url", DictGet(data, "url")>>,
       <<"title", DictGet(data, "title")>>,
       <<"status_code", DictGet(data, "status_code")>>,
       <<"headings_count", PyInt(count_of(data, "headings"))>>,
       <<"paragraphs_count", PyInt(count_of(data, "paragraphs"))>>,
       <<"links_count", PyInt(count_of(data, "links"))>>,
       <<"images_count", PyInt(count_of(data, "images"))>> >>

\* csv_data: the whole result dict in selector mode, flat_data otherwise.
csv_data(data, custom_selectors) ==
    IF truthy(custom_selectors) THEN to_csv(data) ELSE to_csv(flat_data(data))

\* The two st.metric calls raise TypeError (and end the run) on a value that
\* is not an int, a str or None, and len(data['title']) on None.
metrics_raise(data) ==
    \/ DictGet(data, "status_code").kind \notin {"int", "str", "none"}
    \/ DictGet(data, "title").kind \notin {"str"}

(* ---------------------------------------------------------------------- *)
(* The inputs                                                              *)
(* ---------------------------------------------------------------------- *)

example_urls == <<
    <<"h", "t", "t", "p", "s", ":", "/", "/", "w", "w", "w", ".", "b", "i", "n", "a", "r", "h", "a", "n", "d", "l", "i", "n", "g", ".", "c", "o", "m", "/", "e", "n", "/", "p", "r", "o", "d", "u", "c", "t", "s", "/", "e", "n", "d", "-", "e", "f", "f", "e", "c", "t", "o", "r", "s", "/">>,
    <<"h", "t", "t", "p", "s", ":", "/", "/", "w", "w", "w", ".", "b", "i", "n", "a", "r", "h", "a", "n", "d", "l", "i", "n", "g", ".", "c", "o", "m", "/", "e", "n", "/", "p", "r", "o", "d", "u", "c", "t", "s", "/", "m", "a", "n", "i", "p", "u", "l", "a", "t", "o", "r", "-", "a", "r", "m", "s", "/">>,
    <<"h", "t", "t", "p", "s", ":", "/", "/", "w", "w", "w", ".", "b", "i", "n", "a", "r", "h", "a", "n", "d", "l", "i", "n", "g", ".", "c", "o", "m", "/", "e", "n", "/", "p", "r", "o", "d", "u", "c", "t", "s", "/", "r", "a", "i", "l", "-", "s", "y", "s", "t", "e", "m", "s", "/">> >>

\* What the user may type in the URL field.
Urls == {<<>>, <<"x",".","c","o","m">>,
         <<"h","t","t","p",":","/","/","x",".","c","o","m","/","a">>,
         <<"h","t","t","p","s",":","/","/","x",".","c","o","m","/","p","r","o","d","u","c","t","s","/">>}

\* What the user may type as a selector name and as a CSS selector.
SelectorNames == {"", "title", "headings"}

SelectorCss == {<<>>, <<"h","1">>, <<"l","i">>, <<"#","n","o","p","e">>, <<"h","1","[">>}

Elem(name, attrs, strings) == [name |-> name, id |-> <<>>, attrs |-> attrs, strings |-> strings]

TextNode(s) == [kind |-> "text", v |-> s]

TagNode(nodes) == [kind |-> "tag", v |-> nodes]

\* No title, no elements.
DocEmpty == [title |-> <<>>, body |-> <<>>]

\* <title> Shop </title>, one h1, three li, a p, anchors with and without
\* href, images with and without src.
DocShop ==
    [title |-> << <<TextNode(<<" ","S","h","o","p"," ">>)>> >>,
     body |-> <<
        Elem(<<"h","1">>, <<>>, << <<"H","e","l","l","o">> >>),
        Elem(<<"l","i">>, <<>>, << <<" ","A"," ">> >>),
        Elem(<<"l","i">>, <<>>, << <<"B">> >>),
        Elem(<<"a">>, << <<"href", <<"/","a","b","o","u","t">> >> >>,
             << <<" ">>, <<"A","b","o","u","t">> >>),
        Elem(<<"a">>, <<>>, << <<"t","o","p">> >>),
        Elem(<<"l","i">>, <<>>, << <<"C">>, <<" ">> >>),
        Elem(<<"p">>, <<>>, << <<" ","o","n","e"," ">>, <<"t","w","o">> >>),
        Elem(<<"a">>, << <<"href", <<"h", "t", "t", "p", "s", ":", "/", "/", "x", ".", "c", "o", "m", "/", "a", "#">> >> >>, <<>>),
        Elem(<<"a">>, << <<"href", <<"h", "t", "t", "p", ":", "/", "/", "y", ".", "c", "o", "m", "/", "p">> >> >>, << <<"y">> >>),
        Elem(<<"i","m","g">>, << <<"src", <<"i",".","p","n","g">> >>, <<"alt", <<"I">> >> >>, <<>>),
        Elem(<<"i","m","g">>, << <<"alt", <<"J">> >> >>, <<>>) >>]

\* <title></title> and one h1.
DocEmptyTitle ==
    [title |-> << <<>> >>,
     body |-> << Elem(<<"h","1">>, <<>>, << <<"H","i">> >>) >>]

\* <title>a<b>b</b></title>
DocNestedTitle ==
    [title |-> << <<TextNode(<<"a">>), TagNode(<<TextNode(<<"b">>)>>)>> >>,
     body |-> <<>>]

\* <title><span> W </span></title> and two h1.
DocWrappedTitle ==
    [title |-> << <<TagNode(<<TextNode(<<" ","W"," ">>)>>)>> >>,
     body |-> << Elem(<<"h","1">>, <<>>, << <<"O","n","e">> >>),
                 Elem(<<"h","1">>, <<>>, << <<"T","w","o">> >>) >>]

Docs == {DocEmpty, DocShop, DocEmptyTitle, DocNestedTitle, DocWrappedTitle}

\* What the server may answer to the GET.
Responses ==
    {RaisedResponse("ConnectionError"), RaisedResponse("Timeout")}
    \cup {HttpResponse(200, d) : d \in Docs}
    \cup {HttpResponse(404, DocEmpty), HttpResponse(503, DocEmpty),
          HttpResponse(300, DocShop), HttpResponse(999, DocEmpty)}

(* ---------------------------------------------------------------------- *)
(* The state: the widgets' values, st.session_state, and what the last run *)
(* of the script did.                                                      *)
(* ---------------------------------------------------------------------- *)

VARIABLES
    use_custom_selectors,   \* the checkbox "Use Custom CSS Selectors"
    selector_name,          \* the text input "Selector Name"
    selector_css,           \* the text input "CSS Selector"
    url_input,              \* the text input "Enter URL to scrape"
    ss_custom_selectors,    \* st.session_state.custom_selectors, or None when unset
    ss_example_url,         \* st.session_state.example_url, or None when unset
    rerun,                  \* st.rerun() was called: the script runs again at once
    event,                  \* what started the last run
    out                     \* what the last run did and showed

vars == <<use_custom_selectors, selector_name, selector_css, url_input,
          ss_custom_selectors, ss_example_url, rerun, event, out>>

PyDict(d) == [kind |-> "dict", v |-> d]

\* A run that reached neither the validation nor scrape_page.
NoOut ==
    [scrape_button |-> FALSE,   \* the value of scrape_button in the run
     url |-> <<>>,              \* url at the test "if scrape_button and url"
     gets |-> <<>>,             \* the URLs session.get was called with
     called |-> FALSE,          \* scrape_page was called
     passed |-> PyNone,         \* its custom_selectors argument
     response |-> NoResponse,   \* what session.get did
     data |-> PyNone,           \* the pair scrape_page returned
     error |-> PyNone,
     errors |-> <<>>,           \* the st.error messages shown
     success |-> FALSE,         \* st.success("Website scraped successfully!")
     results |-> FALSE,         \* the header "Scraping Results" was shown
     raised |-> FALSE,          \* the run ended with an uncaught exception
     json_button |-> FALSE,     \* the JSON download button was shown
     csv |-> NoCsv]             \* csv_data of the CSV download button

\* if selector_name and selector_css
add_accepts(name, css) == name # "" /\ css # <<>>

\* The validation left out: every URL passes.
url_is_valid_any(url) == TRUE

\* url.startswith(('http://', 'https://'))
url_is_valid(url) ==
    \/ startswith(url, <<"h","t","t","p",":","/","/">>)
    \/ startswith(url, <<"h","t","t","p","s",":","/","/">>)

\* custom_selectors if custom_selectors else None
selectors_argument(custom_selectors) ==
    IF truthy(custom_selectors) THEN custom_selectors ELSE PyNone

\* What the run shows for the pair r that scrape_page returned: the error,
\* or the results and the two download buttons.  got is the run so far.
display(got, custom_selectors, r) ==
    IF truthy(r.error)
    THEN [got EXCEPT !.data = r.data, !.error = r.error,
                     !.errors = <<"Error scraping website">>]
    ELSE IF metrics_raise(r.data.v)
    THEN [got EXCEPT !.data = r.data, !.error = r.error,
                     !.success = TRUE, !.results = TRUE, !.raised = TRUE]
    ELSE [got EXCEPT !.data = r.data, !.error = r.error,
                     !.success = TRUE, !.results = TRUE, !.json_button = TRUE,
                     !.csv = csv_data(r.data.v, custom_selectors)]

\* The block "if scrape_button and url": the validation, the call of
\* scrape_page and the display of what it returned.
scraping(scrape_button, url, custom_selectors, response) ==
    IF ~(scrape_button /\ url # <<>>)
    THEN [NoOut EXCEPT !.scrape_button = scrape_button, !.url = url]
    ELSE IF ~url_is_valid(url)
    THEN [NoOut EXCEPT !.scrape_button = scrape_button, !.url = url,
                       !.errors = <<"Please enter a valid URL">>]
    ELSE display([NoOut EXCEPT !.scrape_button = scrape_button, !.url = url,
                               !.gets = <<url>>, !.called = TRUE,
                               !.passed = selectors_argument(custom_selectors),
                               !.response = response],
                 custom_selectors,
                 scrape_page(url, selectors_argument(custom_selectors), response))

\* One run of main().  cb, name, css and url are the widgets' values in the
\* run; add_button, scrape_button say whether that button was clicked,
\* del_name names the selector whose delete button was clicked ("" for
\* none), example the example URL whose button was clicked (<<>> for none);
\* response is what session.get does if the run reaches it.
main(cb, name, css, url, add_button, del_name, scrape_button, example, response) ==
    LET added ==
            IF cb /\ add_button /\ add_accepts(name, css)
            THEN PyDict(DictSet(IF ss_custom_selectors.kind = "none" THEN <<>>
                                ELSE ss_custom_selectors.v, name, css))
            ELSE ss_custom_selectors
        listed == cb /\ truthy(added)
        deleted == listed /\ del_name # "" /\ DictHas(added.v, del_name)
        custom_selectors == IF listed THEN added ELSE PyDict(<<>>)
        url_used == IF ss_example_url.kind = "none" THEN url ELSE ss_example_url.v
    IN  IF deleted
        THEN /\ ss_custom_selectors' = PyDict(DictDel(added.v, del_name))
             /\ rerun' = TRUE
             /\ out' = NoOut
             /\ UNCHANGED ss_example_url
        ELSE IF example # <<>>
        THEN /\ ss_custom_selectors' = added
             /\ ss_example_url' = PyStr(example)
             /\ rerun' = TRUE
             /\ out' = [NoOut EXCEPT !.scrape_button = scrape_button]
        ELSE /\ ss_custom_selectors' = added
             /\ ss_example_url' = PyNone
             /\ rerun' = FALSE
             /\ out' = scraping(scrape_button, url_used, custom_selectors, response)

Init ==
    /\ use_custom_selectors = FALSE
    /\ selector_name = ""
    /\ selector_css = <<>>
    /\ url_input = <<>>
    /\ ss_custom_selectors = PyNone
    /\ ss_example_url = PyNone
    /\ rerun = FALSE
    /\ event = [kind |-> "start", name |-> ""]
    /\ out = NoOut

\* The user types a URL.
TypeUrl(u) ==
    /\ ~rerun
    /\ u # url_input
    /\ url_input' = u
    /\ event' = [kind |-> "url", name |-> ""]
    /\ main(use_custom_selectors, selector_name, selector_css, u,
            FALSE, "", FALSE, <<>>, NoResponse)
    /\ UNCHANGED <<use_custom_selectors, selector_name, selector_css>>

\* The user ticks or unticks "Use Custom CSS Selectors".
ToggleCustomSelectors ==
    /\ ~rerun
    /\ use_custom_selectors' = ~use_custom_selectors
    /\ event' = [kind |-> "checkbox", name |-> ""]
    /\ main(~use_custom_selectors, selector_name, selector_css, url_input,
            FALSE, "", FALSE, <<>>, NoResponse)
    /\ UNCHANGED <<selector_name, selector_css, url_input>>

\* The user types a selector name (the field is shown with the checkbox ticked).
TypeSelectorName(n) ==
    /\ ~rerun
    /\ use_custom_selectors
    /\ n # selector_name
    /\ selector_name' = n
    /\ event' = [kind |-> "name", name |-> ""]
    /\ main(use_custom_selectors, n, selector_css, url_input,
            FALSE, "", FALSE, <<>>, NoResponse)
    /\ UNCHANGED <<use_custom_selectors, selector_css, url_input>>

\* The user types a CSS selector.
TypeSelectorCss(c) ==
    /\ ~rerun
    /\ use_custom_selectors
    /\ c # selector_css
    /\ selector_css' = c
    /\ event' = [kind |-> "css", name |-> ""]
    /\ main(use_custom_selectors, selector_name, c, url_input,
            FALSE, "", FALSE, <<>>, NoResponse)
    /\ UNCHANGED <<use_custom_selectors, selector_name, url_input>>

\* The user clicks "Add Selector".
ClickAddSelector ==
    /\ ~rerun
    /\ use_custom_selectors
    /\ \/ ss_custom_selectors.kind = "none"
       \/ Len(ss_custom_selectors.v) < MaxSelectors
       \/ DictHas(ss_custom_selectors.v, selector_name)
    /\ event' = [kind |-> "add", name |-> selector_name]
    /\ main(use_custom_selectors, selector_name, selector_css, url_input,
            TRUE, "", FALSE, <<>>, NoResponse)
    /\ UNCHANGED <<use_custom_selectors, selector_name, selector_css, url_input>>

\* The user clicks the delete button of a listed selector.
ClickDelete(n) ==
    /\ ~rerun
    /\ use_custom_selectors
    /\ truthy(ss_custom_selectors)
    /\ DictHas(ss_custom_selectors.v, n)
    /\ event' = [kind |-> "delete", name |-> n]
    /\ main(use_custom_selectors, selector_name, selector_css, url_input,
            FALSE, n, FALSE, <<>>, NoResponse)
    /\ UNCHANGED <<use_custom_selectors, selector_name, selector_css, url_input>>

\* The user clicks the button of an example URL.
ClickExample(i) ==
    /\ ~rerun
    /\ event' = [kind |-> "example", name |-> ""]
    /\ main(use_custom_selectors, selector_name, selector_css, url_input,
            FALSE, "", FALSE, example_urls[i], NoResponse)
    /\ UNCHANGED <<use_custom_selectors, selector_name, selector_css, url_input>>

\* The user clicks "Scrape Website"; the server answers as response.
ClickScrape(response) ==
    /\ ~rerun
    /\ event' = [kind |-> "scrape", name |-> ""]
    /\ main(use_custom_selectors, selector_name, selector_css, url_input,
            FALSE, "", TRUE, <<>>, response)
    /\ UNCHANGED <<use_custom_selectors, selector_name, selector_css, url_input>>

\* The run st.rerun() asked for: the widgets keep their values and no
\* button reads as clicked.
Rerun ==
    /\ rerun
    /\ event' = [kind |-> "rerun", name |-> ""]
    /\ main(use_custom_selectors, selector_name, selector_css, url_input,
            FALSE, "", FALSE, <<>>, NoResponse)
    /\ UNCHANGED <<use_custom_selectors, selector_name, selector_css, url_input>>

Next ==
    \/ \E u \in Urls : TypeUrl(u)
    \/ ToggleCustomSelectors
    \/ \E n \in SelectorNames : TypeSelectorName(n)
    \/ \E c \in SelectorCss : TypeSelectorCss(c)
    \/ ClickAddSelector
    \/ \E n \in SelectorNames : ClickDelete(n)
    \/ \E i \in 1..Len(example_urls) : ClickExample(i)
    \/ \E response \in Responses : ClickScrape(response)
    \/ Rerun

Spec == Init /\ [][Next]_vars

(* ---------------------------------------------------------------------- *)
(* The claims                                                              *)
(* ---------------------------------------------------------------------- *)

BaseKeys == {"url", "title", "status_code"}

DefaultKeys == {"headings", "paragraphs", "links", "images"}

\* The last run called scrape_page and it returned (data, None).
Succeeded == out.called /\ out.error.kind = "none" /\ out.data.kind = "dict"

\* scrape_page was called with a non-empty selector mapping.
SelectorMode == out.called /\ out.passed.kind = "dict" /\ out.passed.v # <<>>

PassedNames == IF out.passed.kind = "dict" THEN DictKeys(out.passed.v) ELSE {}

\* The GET returned a response that is not an HTTP error.
Fetched ==
    /\ out.called
    /\ out.response.kind = "response"
    /\ ~(out.response.status_code >= 400 /\ out.response.status_code < 600)

HasHttpPrefix(u) ==
    \/ Len(u) >= 7 /\ SubSeq(u, 1, 7) = <<"h","t","t","p",":","/","/">>
    \/ Len(u) >= 8 /\ SubSeq(u, 1, 8) = <<"h","t","t","p","s",":","/","/">>

NoTrimmableEnds(t) == t = <<>> \/ (t[1] # " " /\ t[Len(t)] # " ")

\* C1: every successful scrape_page call returns one of two payloads, chosen
\* by whether the selector mapping passed is non-empty: with none, the keys
\* url, title, status_code, headings, paragraphs, links and images; with
\* one, url, title, status_code and one key per selector name, and none of
\* headings/paragraphs/links/images unless it is a selector name.
C1_PayloadVariant ==
    Succeeded =>
        /\ Cardinality(DictKeys(out.data.v)) = Len(out.data.v)
        /\ IF SelectorMode
           THEN /\ DictKeys(out.data.v) = BaseKeys \cup PassedNames
                /\ \A k \in DefaultKeys \ PassedNames : ~DictHas(out.data.v, k)
           ELSE DictKeys(out.data.v) = BaseKeys \cup DefaultKeys

\* A successful selector-mode scrape in which "headings" is a selector name.
C1_Witness == Succeeded /\ SelectorMode /\ "headings" \in PassedNames

\* C2: in selector mode the value under each name follows the number of
\* elements its selector matched: none gives None, one gives the trimmed
\* text as a string, two or more give the list of the trimmed texts of all
\* matches in document order.
C2_SelectorValue ==
    (Succeeded /\ SelectorMode) =>
        \A i \in 1..Len(out.passed.v) :
            LET m == select(out.response.doc, out.passed.v[i][2])
                value == DictGet(out.data.v, out.passed.v[i][1])
            IN  /\ Len(m) = 0 => value.kind = "none"
                /\ Len(m) = 1 =>
                       /\ value.kind = "str"
                       /\ value.v = get_text(m[1])
                       /\ NoTrimmableEnds(value.v)
                /\ Len(m) >= 2 =>
                       /\ value.kind = "list"
                       /\ Len(value.v) = Len(m)
                       /\ \A j \in 1..Len(m) :
                              value.v[j] = get_text(m[j]) /\ NoTrimmableEnds(value.v[j])

\* A result with a single string under one name and None under the other.
C2_Witness ==
    /\ Succeeded
    /\ SelectorMode
    /\ Len(out.passed.v) = 2
    /\ \E k \in PassedNames : DictGet(out.data.v, k).kind = "none"
    /\ \E k \in PassedNames : DictGet(out.data.v, k).kind = "str"

\* The text of the title element's child nodes, nested ones included.
RECURSIVE AllText(_)
AllText(nodes) ==
    IF nodes = <<>> THEN <<>>
    ELSE (IF nodes[1].kind = "text" THEN nodes[1].v ELSE AllText(nodes[1].v))
         \o AllText(Tail(nodes))

\* C3: title extraction never fails: for every fetched document (title
\* absent, plain, empty or with nested elements) and well-formed selectors,
\* scrape_page returns data whose title is the trimmed title text, or
\* "No title" when there is no title element.
C3_TitleNeverFails ==
    (/\ Fetched
     /\ "title" \notin PassedNames
     /\ \A i \in 1..Len(out.passed.v) : ~select_raises(out.passed.v[i][2])) =>
        /\ Succeeded
        /\ DictGet(out.data.v, "title") =
               PyStr(IF out.response.doc.title = <<>>
                     THEN <<"N","o"," ","t","i","t","l","e">>
                     ELSE strip(AllText(out.response.doc.title[1])))

\* C4 as stated: a transport failure or a non-2xx status gives (None, error),
\* one error message, one GET, no results and no download buttons; and every
\* call returns exactly one of data and error.
C4_NonSuccessStatusFails ==
    /\ out.called => ((out.data.kind = "none") # (out.error.kind = "none"))
    /\ (/\ out.called
        /\ \/ out.response.kind = "exception"
           \/ ~(out.response.status_code >= 200 /\ out.response.status_code < 300)) =>
            /\ out.data.kind = "none"
            /\ out.error.kind = "str"
            /\ Len(out.errors) = 1
            /\ Len(out.gets) = 1
            /\ ~out.success /\ ~out.results /\ ~out.json_button /\ out.csv = NoCsv

\* C4, amended: the same for a transport failure or a 4xx/5xx status.
C4_ErrorStatusFails ==
    /\ out.called => ((out.data.kind = "none") # (out.error.kind = "none"))
    /\ (/\ out.called
        /\ \/ out.response.kind = "exception"
           \/ (out.response.status_code >= 400 /\ out.response.status_code < 600)) =>
            /\ out.data.kind = "none"
            /\ out.error.kind = "str"
            /\ Len(out.errors) = 1
            /\ Len(out.gets) = 1
            /\ ~out.success /\ ~out.results /\ ~out.json_button /\ out.csv = NoCsv

\* A scrape that the server answered with 404.
C4_Witness ==
    out.called /\ out.response.status_code = 404 /\ Len(out.errors) = 1

\* C5: on a fetched page, a malformed selector anywhere in the mapping makes
\* scrape_page return (None, error), with none of the values of the selectors
\* before it; without one (and with a title that can be read) the call
\* succeeds, every name has its key, and a selector that matches nothing has
\* None under its name.
C5_MalformedAborts ==
    (Fetched /\ SelectorMode) =>
        IF \E i \in 1..Len(out.passed.v) : select_raises(out.passed.v[i][2])
        THEN out.data.kind = "none" /\ out.error.kind = "str"
        ELSE ~title_raises(out.response.doc) =>
                 /\ Succeeded
                 /\ \A i \in 1..Len(out.passed.v) :
                        /\ DictHas(out.data.v, out.passed.v[i][1])
                        /\ select(out.response.doc, out.passed.v[i][2]) = <<>> =>
                               DictGet(out.data.v, out.passed.v[i][1]).kind = "none"

\* An aborted extraction whose first selector was well-formed and matched.
C5_Witness ==
    /\ Fetched
    /\ SelectorMode
    /\ Len(out.passed.v) = 2
    /\ ~select_raises(out.passed.v[1][2])
    /\ select(out.response.doc, out.passed.v[1][2]) # <<>>
    /\ select_raises(out.passed.v[2][2])
    /\ out.data.kind = "none"

\* C6: a GET is issued only in a run started by the scrape button whose URL
\* is non-empty and begins with http:// or https://, and then once, for that
\* URL; a non-empty URL without the prefix gives the validation error and no
\* GET; a click on an example URL, and the rerun it asks for, issue none.
C6_GetOnlyForValidUrl ==
    /\ out.gets # <<>> =>
           /\ event.kind = "scrape"
           /\ out.scrape_button
           /\ out.url # <<>>
           /\ HasHttpPrefix(out.url)
           /\ out.gets = <<out.url>>
    /\ (out.scrape_button /\ out.url # <<>> /\ ~HasHttpPrefix(out.url)) =>
           /\ out.gets = <<>>
           /\ out.errors = <<"Please enter a valid URL">>
    /\ event.kind \in {"example", "rerun"} => out.gets = <<>>

\* A GET for a typed http:// URL.
C6_Witness ==
    /\ out.gets # <<>>
    /\ out.url = url_input
    /\ SubSeq(out.url, 1, 5) = <<"h","t","t","p",":">>

\* C7: in every successful result url is the requested URL, status_code the
\* response's status and title the value title extraction computed, whatever
\* the selector names.
C7_PageResultKept ==
    Succeeded =>
        /\ DictGet(out.data.v, "url") = PyStr(out.url)
        /\ DictGet(out.data.v, "status_code") = PyInt(out.response.status_code)
        /\ DictGet(out.data.v, "title") = PyStr(title_of(out.response.doc))

\* The href attributes of the anchors that carry one, in document order.
AnchorHrefs(doc) ==
    LET anchors == SelectSeq(doc.body,
                             LAMBDA e : e.name = <<"a">> /\ "href" \in DictKeys(e.attrs))
    IN  [i \in 1..Len(anchors) |-> DictGet(anchors[i].attrs, "href")]

\* C8: the default extraction's links hold one entry per anchor with an
\* href, in document order; "/about" on https://x.com/products/ becomes
\* https://x.com/about and an href that is already absolute stays as it is.
C8_LinksResolved ==
    (Succeeded /\ ~SelectorMode) =>
        LET links == DictGet(out.data.v, "links").v
            hrefs == AnchorHrefs(out.response.doc)
        IN  /\ Len(links) = Len(hrefs)
            /\ \A i \in 1..Len(hrefs) :
                   /\ HasHttpPrefix(hrefs[i]) => links[i].href = hrefs[i]
                   /\ (hrefs[i] = <<"/","a","b","o","u","t">> /\ out.url = <<"h", "t", "t", "p", "s", ":", "/", "/", "x", ".", "c", "o", "m", "/", "p", "r", "o", "d", "u", "c", "t", "s", "/">>) =>
                          links[i].href = <<"h", "t", "t", "p", "s", ":", "/", "/", "x", ".", "c", "o", "m", "/", "a", "b", "o", "u", "t">>

\* The columns the export of a selector extraction has: the three page
\* fields, then the selector names that are none of them, in insertion order.
SelectorColumns ==
    <<"url", "title", "status_code">>
    \o SelectSeq(DictKeySeq(out.passed.v), LAMBDA k : k \notin BaseKeys)

\* C9 as stated: the CSV export of a selector extraction is one row whose
\* columns are the selector names, a list in one cell.
C9_ColumnsAreSelectorNames ==
    (Succeeded /\ SelectorMode /\ out.csv.kind = "csv") =>
        /\ Len(out.csv.rows) = 1
        /\ out.csv.header = DictKeySeq(out.passed.v)

\* C9, amended: the CSV export of a selector extraction is one row whose
\* columns are url, title, status_code and then the other selector names; a
\* list of matches is one cell of that row, written as the list's str().
C9_OneRowAllKeys ==
    (Succeeded /\ SelectorMode /\ out.csv.kind = "csv") =>
        /\ Len(out.csv.rows) = 1
        /\ out.csv.header = SelectorColumns
        /\ Len(out.csv.rows[1]) = Len(out.csv.header)
        /\ \A i \in 1..Len(out.csv.header) :
               LET value == DictGet(out.data.v, out.csv.header[i])
                   cell == out.csv.rows[1][i]
               IN  value.kind = "list" =>
                       /\ Head(cell) = "[" /\ cell[Len(cell)] = "]"
                       /\ Len(cell) = 2 * Len(value.v)
                                      + Len(Concat(value.v)) + 2 * (Len(value.v) - 1) + 2

\* An export with a list of matches in one of its cells.
C9_Witness ==
    /\ Succeeded
    /\ SelectorMode
    /\ out.csv.kind = "csv"
    /\ \E k \in PassedNames : DictGet(out.data.v, k).kind = "list"

\* The session's selector list as a sequence of <<name, css>> pairs.
ListOf(ss) == IF ss.kind = "dict" THEN ss.v ELSE <<>>

NamesOf(l) == {l[i][1] : i \in 1..Len(l)}

CssOf(l, n) == l[CHOOSE i \in 1..Len(l) : l[i][1] = n][2]

C10_Step ==
    LET old == ListOf(ss_custom_selectors)
        new == ListOf(ss_custom_selectors')
    IN  /\ Cardinality(NamesOf(new)) = Len(new)
        /\ \A i \in 1..Len(new) : new[i][1] # "" /\ new[i][2] # <<>>
        /\ event'.kind = "add" =>
               IF selector_name # "" /\ selector_css # <<>>
               THEN /\ NamesOf(new) = NamesOf(old) \cup {selector_name}
                    /\ CssOf(new, selector_name) = selector_css
                    /\ \A n \in NamesOf(old) \ {selector_name} :
                           CssOf(new, n) = CssOf(old, n)
               ELSE new = old
        /\ event'.kind = "delete" =>
               /\ NamesOf(new) = NamesOf(old) \ {event'.name}
               /\ \A n \in NamesOf(new) : CssOf(new, n) = CssOf(old, n)
        /\ event'.kind \notin {"add", "delete"} => new = old
        /\ (event'.kind = "scrape" /\ out'.called /\ ~use_custom_selectors') =>
               out'.passed = PyNone
        /\ (event'.kind = "scrape" /\ out'.called /\ use_custom_selectors') =>
               ListOf(out'.passed) = old

\* C10: the session's selector list always maps each name to one CSS string,
\* both non-empty; "Add Selector" under a listed name replaces its CSS and
\* adds no entry, a delete removes that entry only, a scrape leaves the list
\* as it is and passes it as it is, or passes no selectors when the checkbox
\* is unticked.
C10_SelectorList == [][C10_Step]_vars

\* A scrape with the checkbox unticked and selectors in the session's list.
C10_Witness ==
    /\ event.kind = "scrape"
    /\ out.called
    /\ ~use_custom_selectors
    /\ Len(ListOf(ss_custom_selectors)) = 2
    /\ out.passed = PyNone

====
